---- MODULE Spec2Model ----
(***************************************************************************)
(* The synchronization engine of the gateway: startSync (gap repair and    *)
(* bulk fan-out through Fluture's bounded parallel), the polling loop      *)
(* startPolling, the fork recovery resolveFork with its stream-and-delete  *)
(* rollback, and the write fan-out of one block import into the            *)
(* denormalized tables.                                                    *)
(*                                                                         *)
(* A block hash is the pair <<height, variant>>: variant "r" is the block  *)
(* the remote node serves at that height, variant "x" is an orphaned block *)
(* that an earlier epoch imported at that height.  The block at height h   *)
(* carries the transaction with id h in either variant: a transaction of   *)
(* an orphaned block is included again in the block that replaces it.      *)
(***************************************************************************)
EXTENDS Integers, Sequences, FiniteSets, TLC

\* Bounds of the model.
MaxHeight == 3
MaxWorkers == 2

\* The empty hash "" (topHash before the first poll, previous_block of genesis).
NoHash == <<-1, "">>

\* The values of developmentSyncLength: undefined, NaN or an integer.
Undefined == [kind |-> "undefined", n |-> 0]
NaN == [kind |-> "NaN", n |-> 0]
Number(k) == [kind |-> "number", n |-> k]

Heights == 0 .. (MaxHeight - 1)
Variants == {"r", "x"}

\* A block as the remote node (or an earlier epoch) delivered it.
UpstreamBlock(h, v) ==
  [indep_hash |-> <<h, v>>,
   height |-> h,
   previous_block |-> IF h = 0 THEN NoHash ELSE <<h - 1, "r">>,
   txs |-> {h}]

\* fetchBlockByHash of the remote node: only blocks of the remote chain.
RemoteKnows(hash, len) == hash[2] = "r" /\ hash[1] >= 0 /\ hash[1] < len

fetchBlockByHash(hash) == UpstreamBlock(hash[1], hash[2])

\* getHashList of the remote node: index = height.
getHashList(len) == [h \in 1 .. len |-> <<h - 1, "r">>]

----------------------------------------------------------------------------
(* The store: one field per table.                                         *)

EmptyStore ==
  [block |-> {},
   block_gql |-> {},
   block_gql_asc |-> {},
   block_gql_desc |-> {},
   block_height_by_block_hash |-> {},
   block_by_tx_id |-> {},
   poa |-> {},
   transaction |-> {},
   tx_tag |-> {},
   tx_offset |-> {}]

BlockRow(b) == [height |-> b.height, indep_hash |-> b.indep_hash]

\* A column no statement has written.
Null == [kind |-> "null", n |-> 0]

\* The transaction with the id, as the remote node serves it: the
\* transaction of the block at height h has h tags, and data when h is odd.
UpstreamTx(id) ==
  [id |-> id,
   tags |-> [i \in 1 .. id |-> [name |-> i, value |-> id]],
   data_size |-> id % 2,
   tx_offset |-> [size |-> id % 2, offset |-> id]]

\* The values CassandraTypes.TimeUuid.fromDate(date) can return for a date:
\* node and clock identifiers are random, so two calls differ.
TimeUuids == {1, 2}

\* INSERT ... IF NOT EXISTS on a table with the single key column `key`.
InsertIfNotExists(table, key, row) ==
  IF \E r \in table : r[key] = row[key] THEN table ELSE table \cup {row}

\* A plain INSERT on a table with the single key column `key` (an upsert).
Upsert(table, key, row) ==
  {r \in table : r[key] # row[key]} \cup {row}

blockByTxIdInsert(table, tx, blockData) ==
  InsertIfNotExists(table, "tx_id",
    [tx_id |-> tx.id, block_height |-> blockData.height,
     block_hash |-> blockData.indep_hash])

\* transformTxKey, case "tag_count".
tagCount(txData) == IF txData.tags = <<>> THEN 0 ELSE Len(txData.tags)

\* nextVal && !R.isEmpty(nextVal) for a number: 0 is falsy, the column is
\* left out of the INSERT.
NonNilNumber(nextVal) == nextVal # 0

\* The transaction INSERT: a column left out keeps the value the row has.
transactionInsert(table, tx, blockData) ==
  LET old == {r \in table : r.id = tx.id}
      kept == IF old = {} THEN Null ELSE (CHOOSE r \in old : TRUE).tag_count
  IN Upsert(table, "id",
       [id |-> tx.id, block_height |-> blockData.height,
        block_hash |-> blockData.indep_hash,
        tag_count |-> IF NonNilNumber(tagCount(tx))
                      THEN Number(tagCount(tx)) ELSE kept])

\* transformTag(tag, tx, index, index + 1 < tx.tags.length ? index + 1 :
\* undefined); -1 stands for an undefined next_tag_index.
transformTag(tag, txObj, index, nextIndex) ==
  [tag_index |-> index,
   next_tag_index |-> nextIndex,
   tx_id |-> txObj.id,
   name |-> tag.name,
   value |-> tag.value]

\* One txTagsInsertQuery for every tag; the key is (tag_index, tx_id).
txTagsInsert(table, tx) ==
  LET rows == {transformTag(tx.tags[i], tx, i - 1,
                            IF i < Len(tx.tags) THEN i ELSE -1) :
                 i \in 1 .. Len(tx.tags)}
  IN {r \in table :
        ~ \E n \in rows : n.tag_index = r.tag_index /\ n.tx_id = r.tx_id}
     \cup rows

\* transformTxOffsetKeys: size || 0 and offset || -1.
transformTxOffsetKeys(txObj) ==
  [tx_id |-> txObj.id,
   size |-> txObj.tx_offset.size,
   offset |-> IF txObj.tx_offset.offset = 0 THEN -1
              ELSE txObj.tx_offset.offset]

\* makeTxImportQuery(tx, blockData)(), all statements done.
makeTxImportQuery(s, tx, blockData) ==
  [s EXCEPT
     !.block_by_tx_id = blockByTxIdInsert(@, tx, blockData),
     !.transaction = transactionInsert(@, tx, blockData),
     !.tx_tag = txTagsInsert(@, tx),
     !.tx_offset = IF tx.data_size > 0
                   THEN Upsert(@, "tx_id", transformTxOffsetKeys(tx))
                   ELSE @]

blockHeightByHashInsert(table, input) ==
  InsertIfNotExists(table, "block_hash",
    [block_hash |-> input.indep_hash, block_height |-> input.height])

\* blockGqlInsertAscQuery / blockGqlInsertDescQuery: the row of the key
\* (height, indep_hash) gets the timestamp of this call.
blockGqlInsert(table, input, blockTimeUuid) ==
  {r \in table : BlockRow(r) # BlockRow(input)}
  \cup {[height |-> input.height, indep_hash |-> input.indep_hash,
         timestamp |-> blockTimeUuid]}

\* Mutant of makeBlockImportQuery: the block_gql_desc statement is missing.
makeBlockImportQueryNoDesc(s, input, blockTimeUuid) ==
  [s EXCEPT
     !.poa = @ \cup {[block_hash |-> input.indep_hash,
                      block_height |-> input.height]},
     !.block_gql_asc = blockGqlInsert(@, input, blockTimeUuid),
     !.block_height_by_block_hash = blockHeightByHashInsert(@, input),
     !.block = @ \cup {BlockRow(input)}]

\* makeBlockImportQuery(input)(), all five statements done; blockTimeUuid is
\* the value TimeUuid.fromDate returned in this call.
makeBlockImportQuery(s, input, blockTimeUuid) ==
  [s EXCEPT
     !.poa = @ \cup {[block_hash |-> input.indep_hash,
                      block_height |-> input.height]},
     !.block_gql_asc = blockGqlInsert(@, input, blockTimeUuid),
     !.block_gql_desc = blockGqlInsert(@, input, blockTimeUuid),
     !.block_height_by_block_hash = blockHeightByHashInsert(@, input),
     !.block = @ \cup {BlockRow(input)}]

\* The worker runs makeTxImportQuery for every transaction of the block.
RECURSIVE importTxs(_, _, _)
importTxs(s, txs, blockData) ==
  IF txs = {} THEN s
  ELSE LET id == CHOOSE t \in txs : TRUE
       IN importTxs(makeTxImportQuery(s, UpstreamTx(id), blockData),
                    txs \ {id}, blockData)

\* No step of startSync, startPolling or resolveFork reads the timestamp
\* column of block_gql_asc and block_gql_desc: their specifications keep the
\* rows without it.
withoutTimestamps(s) ==
  [s EXCEPT !.block_gql_asc = {[r EXCEPT !.timestamp = 0] : r \in @},
            !.block_gql_desc = {[r EXCEPT !.timestamp = 0] : r \in @}]

\* The worker's importBlock: the transactions' statements, then the block's.
ImportBlockWrites(s, b) ==
  withoutTimestamps(
    makeBlockImportQuery(importTxs(s, b.txs, b), b,
                         CHOOSE u \in TimeUuids : TRUE))

RECURSIVE ImportAll(_, _)
ImportAll(s, bs) ==
  IF bs = {} THEN s
  ELSE LET b == CHOOSE x \in bs : \A y \in bs :
                  x.height < y.height \/
                  (x.height = y.height /\ (x.indep_hash[2] = "x" \/ x = y))
       IN ImportAll(ImportBlockWrites(s, b), bs \ {b})

\* getMaxHeightBlock: SELECT height,indep_hash FROM block_gql limit 1.
getMaxHeightBlock(s) ==
  IF s.block_gql = {} THEN <<NoHash, -1>>
  ELSE LET row == CHOOSE r \in s.block_gql :
                    \A q \in s.block_gql : q.height <= r.height
       IN <<row.indep_hash, row.height>>

\* detectFirstRun: SELECT height FROM block LIMIT 1.
detectFirstRun(s) == s.block = {}

\* Mutant of sortByHeight: descending.
RECURSIVE sortByHeightDescending(_)
sortByHeightDescending(entries) ==
  IF entries = {} THEN <<>>
  ELSE LET e == CHOOSE x \in entries : \A y \in entries : x.height >= y.height
       IN <<e>> \o sortByHeightDescending(entries \ {e})

\* R.sortBy(R.prop("height")) of a set of {hash, height} entries.
RECURSIVE sortByHeight(_)
sortByHeight(entries) ==
  IF entries = {} THEN <<>>
  ELSE LET e == CHOOSE x \in entries : \A y \in entries : x.height <= y.height
       IN <<e>> \o sortByHeight(entries \ {e})

\* A JavaScript value as R.equals sees it: its type and its numeric value.
\* The index of hashList.reduce is a number; the driver decodes a bigint
\* column (block.height) to a Long object.
JsNumber(n) == [type |-> "Number", value |-> n]
Long(n) == [type |-> "Object", value |-> n]

\* R.equals(a, b): values of different types are never equal.
R_equals(a, b) == a.type = b.type /\ a.value = b.value

\* The height of a row as eachRow delivers it.
rowHeight(row) == Long(row.height)

\* The row callback of findMissingBlocks, for every row of the block table:
\* matchingRow = hashListObject[row.height] (the key is the height's decimal
\* string), deleted when R.equals holds of the hashes and of the heights.
RECURSIVE dequeueRows(_, _)
dequeueRows(hashListObject, rows) ==
  IF rows = {} THEN hashListObject
  ELSE LET row == CHOOSE r \in rows : TRUE
           matching == {e \in hashListObject : e.height = rowHeight(row).value}
           hit == {matchingRow \in matching :
                     /\ matchingRow.hash = row.indep_hash
                     /\ R_equals(JsNumber(matchingRow.height), rowHeight(row))}
       IN dequeueRows(hashListObject \ hit, rows \ {row})

findMissingBlocks(hl, s) ==
  sortByHeight(
    dequeueRows({[height |-> i - 1, hash |-> hl[i]] : i \in 1 .. Len(hl)},
                s.block))

\* Mutant of AllBlocks: heights counted from 1.
AllBlocksFromOne(hl) == [i \in 1 .. Len(hl) |-> [hash |-> hl[i], height |-> i]]

\* hashList.map((hash, height) => ({ hash, height }))
AllBlocks(hl) == [i \in 1 .. Len(hl) |-> [hash |-> hl[i], height |-> i - 1]]

\* Doctor: is the block table shorter than the hash list?
checkForBlockGaps(hl, s) == Cardinality(s.block) < Len(hl)

\* Doctor: the heights of the hash list with no local row, ascending.
RECURSIVE ascending(_)
ascending(hs) ==
  IF hs = {} THEN <<>>
  ELSE LET m == CHOOSE x \in hs : \A y \in hs : x <= y
       IN <<m>> \o ascending(hs \ {m})

findBlockGaps(hl, s) ==
  ascending({h \in 0 .. (Len(hl) - 1) :
               ~ \E row \in s.block : row.height = h})

\* Mutant of slice: the entry at index `from` is dropped too.
sliceAfter(from, to, list) ==
  IF from + 1 >= to \/ from + 1 >= Len(list) THEN <<>>
  ELSE SubSeq(list, from + 2, IF to > Len(list) THEN Len(list) ELSE to)

\* R.slice(from, to, list) = list.slice(from, to) for from >= 0.
slice(from, to, list) ==
  IF from >= to \/ from >= Len(list) THEN <<>>
  ELSE SubSeq(list, from + 1, IF to > Len(list) THEN Len(list) ELSE to)

\* Number.parseInt(process.env.DEVELOPMENT_SYNC_LENGTH): the values the
\* variable can hold when startSync runs.
DevelopmentSyncLengths ==
  {Undefined, NaN} \cup {Number(k) : k \in 0 .. (MaxHeight - 1)}

\* developmentSyncLength === Number.NaN: NaN is not strictly equal to any
\* value, itself included.
StrictEqualsNaN(d) == FALSE

\* The exit code after the module is loaded: process.exit(1) when the test
\* on developmentSyncLength succeeds, else the process runs (-1).
LoadExitCode(d) == IF StrictEqualsNaN(d) THEN 1 ELSE -1

\* if (developmentSyncLength): undefined, NaN and 0 are falsy.
Truthy(d) == d.kind = "number" /\ d.n # 0

----------------------------------------------------------------------------
(* Fluture's parallel(max)(list), as startSync uses it.                    *)

\* state: "pending" until the parallel future resolves or rejects.
NoParallel ==
  [kind |-> "none", list |-> <<>>, cursor |-> 0, running |-> {},
   state |-> "resolved"]

\* parallel(PARALLEL_WORKERS)(list.map(...)), not yet forked.
Parallel(kind, list) ==
  [kind |-> kind, list |-> list, cursor |-> 0, running |-> {},
   state |-> IF list = <<>> THEN "resolved" ELSE "pending"]

\* Mutant of ParallelDrain: running <= max lets one job too many start.
RECURSIVE ParallelDrainOneMore(_, _)
ParallelDrainOneMore(p, max) ==
  IF p.cursor < Len(p.list) /\ Cardinality(p.running) <= max
  THEN ParallelDrainOneMore(
         [p EXCEPT !.running = @ \cup {p.list[p.cursor + 1]},
                   !.cursor = @ + 1], max)
  ELSE p

\* Parallel$drain: while (cursor < length && running < max) run(cursor++)
RECURSIVE ParallelDrain(_, _)
ParallelDrain(p, max) ==
  IF p.cursor < Len(p.list) /\ Cardinality(p.running) < max
  THEN ParallelDrain(
         [p EXCEPT !.running = @ \cup {p.list[p.cursor + 1]},
                   !.cursor = @ + 1], max)
  ELSE p

\* Mutant of ParallelDone: resolved as soon as the last future was started.
ParallelAllStarted(p) == p.cursor = Len(p.list)

\* Parallel$res after a future resolved: the parallel future resolves when
\* every future of the list was started and none is running.
ParallelDone(p) == p.cursor = Len(p.list) /\ p.running = {}

\* workerPool.single.importBlock(height): a job on its way to a worker.
Job(h, origin) == [height |-> h, origin |-> origin, st |-> "sent"]

----------------------------------------------------------------------------
VARIABLES
  PARALLEL_WORKERS,       \* process.env PARALLEL_WORKERS
  developmentSyncLength,  \* process.env DEVELOPMENT_SYNC_LENGTH, parsed
  remoteLen,              \* number of blocks of the remote chain
  store,                  \* the tables
  workerReady,            \* workers whose worker:ready message was handled
  jobs,                   \* importBlock jobs dispatched and not yet settled
  syncPc,                 \* position of startSync
  hashList, firstRun, lastBlock, par,
  exitCode,               \* -1 while the process runs, else process.exit's code
  topHash, gatewayHeight, topHeight, currentHeight,
  isPollingStarted, isPaused,
  pollPc,                 \* position of startPolling / resolveFork
  nodeInfo,               \* the poll iteration's nodeInfo (height, -1 = nil)
  previousBlock,          \* resolveFork's argument
  rollbackScans,          \* eachRow scans of resolveFork in flight (ancestor height)
  pendingDeletes,         \* DELETEs issued by the row callback, not yet executed
  dispatchCount,          \* history: importBlock dispatches of startSync per height
  iter,                   \* history: what the current poll iteration did
  forkWritten,            \* history: rows written by imports resolveFork dispatched
  txInFlight,             \* txInFlight: worker id -> last stats:tx:flight payload
  lastImport,             \* history: the last call of an import query and its input
  lastMessage,            \* history: the last message onMessage handled, other
                          \* than worker:ready (which workerReady records)
  blockQuery,             \* history: the last generateBlockQuery call and its CQL
  schemaPc,               \* position of the Schema Initializer
  schemaStarted,          \* history: the statements it has started, in order
  schemaInFlight,         \* its statements executing and not yet settled
  schemaTables            \* the keyspace and tables that exist

vars ==
  <<PARALLEL_WORKERS, developmentSyncLength, remoteLen, store, workerReady,
    jobs, syncPc, hashList, firstRun, lastBlock, par, exitCode, topHash,
    gatewayHeight, topHeight, currentHeight, isPollingStarted, isPaused,
    pollPc, nodeInfo, previousBlock, rollbackScans, pendingDeletes,
    dispatchCount, iter, forkWritten, txInFlight, lastImport, lastMessage,
    blockQuery, schemaPc, schemaStarted, schemaInFlight, schemaTables>>

envVars == <<PARALLEL_WORKERS, developmentSyncLength>>
syncVars == <<syncPc, hashList, firstRun, lastBlock, par, dispatchCount>>
globalVars == <<topHash, gatewayHeight, topHeight, currentHeight>>
pollVars == <<pollPc, nodeInfo, previousBlock, iter>>
rollbackVars == <<rollbackScans, pendingDeletes>>
msgVars == <<txInFlight, lastMessage>>
importVars == <<lastImport>>
queryVars == <<blockQuery>>
schemaVars == <<schemaPc, schemaStarted, schemaInFlight, schemaTables>>

\* No message has been handled.
NoMessage == [type |-> "none", workerId |-> 0]

\* generateBlockQuery has not been called.
NoQuery == [called |-> FALSE]

\* The Schema Initializer has not been started, on a keyspace without tables.
SchemaNotStarted ==
  /\ schemaPc = "connect"
  /\ schemaStarted = <<>>
  /\ schemaInFlight = {}
  /\ schemaTables = {}

\* No import query has been called.
NoImport == [kind |-> "none", block |-> NoHash, tx |-> -1]

NoIter == [branch |-> "none", imports |-> {}, resolveFork |-> FALSE]

\* The stores an earlier epoch can have left: per height no block, the block
\* of the remote chain or an orphaned block; block_gql, which no import of
\* this version writes, holds nothing or the row of one of these blocks.
Layouts == [Heights -> {"-", "r", "x"}]

StoresOf(layouts) ==
  UNION {
    LET bs == {UpstreamBlock(h, f[h]) : h \in {x \in Heights : f[x] # "-"}}
        s == ImportAll(EmptyStore, bs)
    IN {[s EXCEPT !.block_gql = g] :
          g \in {{}} \cup {{BlockRow(b)} : b \in bs}}
    : f \in layouts}

InitialStores == StoresOf(Layouts)

\* The stores a finished sync epoch leaves: no height is missing below a
\* height that is present.
SyncedStores ==
  StoresOf({f \in Layouts :
              \A h \in Heights : f[h] = "-" =>
                \A g \in Heights : g > h => f[g] = "-"})

Init ==
  /\ PARALLEL_WORKERS \in 1 .. MaxWorkers
  /\ developmentSyncLength \in DevelopmentSyncLengths
  /\ remoteLen \in 1 .. MaxHeight
  /\ store \in InitialStores
  /\ workerReady = {}
  /\ jobs = {}
  /\ syncPc = "awaitReady"
  /\ hashList = <<>>
  /\ firstRun = FALSE
  /\ lastBlock = -1
  /\ par = NoParallel
  /\ exitCode = LoadExitCode(developmentSyncLength)
  /\ topHash = NoHash
  /\ gatewayHeight = 0
  /\ topHeight = 0
  /\ currentHeight = 0
  /\ isPollingStarted = FALSE
  /\ isPaused = FALSE
  /\ pollPc = "idle"
  /\ nodeInfo = -1
  /\ previousBlock = NoHash
  /\ rollbackScans = {}
  /\ pendingDeletes = {}
  /\ dispatchCount = [h \in Heights |-> 0]
  /\ iter = NoIter
  /\ forkWritten = {}
  /\ txInFlight = <<>>
  /\ lastImport = NoImport
  /\ lastMessage = NoMessage
  /\ blockQuery = NoQuery
  /\ SchemaNotStarted

Running == exitCode = -1

\* Mutant of AllWorkersReady: one handshake is enough.
SomeWorkerReady(ready, n) == ready # {}

\* Promise.all over workerReadyPromises[1 .. PARALLEL_WORKERS]: every promise
\* has been resolved by its worker's worker:ready message.
AllWorkersReady(ready, n) == ready = 1 .. n

\* workerPool.onMessage, case "worker:ready"
WorkerReady(w) ==
  /\ Running
  /\ w \in (1 .. PARALLEL_WORKERS) \ workerReady
  /\ workerReady' = workerReady \cup {w}
  /\ UNCHANGED <<envVars, queryVars, schemaVars, msgVars, importVars, remoteLen, store, jobs, syncVars, exitCode,
                 globalVars, isPollingStarted, isPaused, pollVars,
                 rollbackVars, forkWritten>>

\* The jobs a drain from p to q has dispatched, and their bookkeeping.
Dispatched(p, q) == {q.list[i] : i \in (p.cursor + 1) .. q.cursor}
CountDispatch(dc, hs) == [h \in Heights |-> IF h \in hs THEN dc[h] + 1 ELSE dc[h]]
LastDispatched(q, old) == IF q.cursor = 0 THEN old ELSE q.list[q.cursor]

\* startPolling up to its first await (getNodeInfo).
EnterPolling ==
  /\ isPollingStarted' = TRUE
  /\ pollPc' = "getNodeInfo"
  /\ iter' = NoIter

\* startSync from the workers' handshakes to the gap repair fan-out.
SyncBegin ==
  /\ Running
  /\ syncPc = "awaitReady"
  /\ AllWorkersReady(workerReady, PARALLEL_WORKERS)
  /\ LET hl == getHashList(remoteLen)
         fr == detectFirstRun(store)
         blockGap == findBlockGaps(hl, store)
         repair == ~fr /\ checkForBlockGaps(hl, store) /\ blockGap # <<>>
         p == Parallel("gap", blockGap)
         q == ParallelDrain(p, PARALLEL_WORKERS)
     IN /\ hashList' = hl
        /\ topHeight' = Len(hl)
        /\ firstRun' = fr
        /\ IF repair
           THEN /\ par' = q
                /\ jobs' = jobs \cup {Job(h, "gap") : h \in Dispatched(p, q)}
                /\ dispatchCount' = CountDispatch(dispatchCount, Dispatched(p, q))
                /\ lastBlock' = LastDispatched(q, lastBlock)
                /\ syncPc' = "gapRepair"
           ELSE /\ syncPc' = "afterGap"
                /\ UNCHANGED <<par, jobs, dispatchCount, lastBlock>>
  /\ UNCHANGED <<envVars, queryVars, schemaVars, msgVars, importVars, remoteLen, store, workerReady, exitCode, topHash,
                 gatewayHeight, currentHeight, isPollingStarted, isPaused,
                 pollVars, rollbackVars, forkWritten>>

\* startSync from the end of the gap repair to the bulk fan-out (or to
\* polling, when nothing is left to sync).
SyncAfterGap ==
  /\ Running
  /\ syncPc = "afterGap"
  /\ LET lastBlock1 == IF ~firstRun THEN getMaxHeightBlock(store)[2]
                       ELSE lastBlock
         unsynced0 == IF firstRun THEN AllBlocks(hashList)
                      ELSE findMissingBlocks(hashList, store)
         initialLastBlock == IF Len(unsynced0) > 0 THEN unsynced0[1].height
                             ELSE 0
         unsyncedBlocks ==
           IF Truthy(developmentSyncLength)
           THEN slice(developmentSyncLength.n, Len(unsynced0), unsynced0)
           ELSE unsynced0
         p == Parallel("bulk", [i \in 1 .. Len(unsyncedBlocks) |->
                                  unsyncedBlocks[i].height])
         q == ParallelDrain(p, PARALLEL_WORKERS)
     IN /\ lastBlock' = lastBlock1
        /\ gatewayHeight' = IF Truthy(developmentSyncLength)
                            THEN initialLastBlock ELSE lastBlock1
        /\ IF ~firstRun /\ unsyncedBlocks = <<>>
           THEN \* "fully synced db": startPolling(); return
                /\ EnterPolling
                /\ syncPc' = "done"
                /\ UNCHANGED <<par, jobs, dispatchCount, currentHeight>>
           ELSE /\ par' = q
                /\ jobs' = jobs \cup {Job(h, "bulk") : h \in Dispatched(p, q)}
                /\ dispatchCount' = CountDispatch(dispatchCount, Dispatched(p, q))
                /\ currentHeight' = LastDispatched(q, currentHeight)
                /\ IF unsyncedBlocks = <<>>
                   THEN \* parallel of no futures resolves at once
                        /\ EnterPolling
                        /\ syncPc' = "done"
                   ELSE /\ syncPc' = "bulk"
                        /\ UNCHANGED <<isPollingStarted, pollPc, iter>>
  /\ UNCHANGED <<envVars, queryVars, schemaVars, msgVars, importVars, remoteLen, store, workerReady, hashList, firstRun,
                 exitCode, topHash, topHeight, isPaused, nodeInfo,
                 previousBlock, rollbackVars, forkWritten>>

\* A worker runs importBlock(height): it fetches the block of the remote
\* chain at that height and executes every statement of its projection.
JobWrite(j) ==
  /\ Running
  /\ j \in jobs
  /\ j.st = "sent"
  /\ LET b == UpstreamBlock(j.height, "r")
     IN /\ store' = ImportBlockWrites(store, b)
        /\ forkWritten' = IF j.origin = "fork"
                          THEN forkWritten \cup {BlockRow(b)}
                          ELSE forkWritten
  /\ jobs' = (jobs \ {j}) \cup {[j EXCEPT !.st = "written"]}
  /\ UNCHANGED <<envVars, queryVars, schemaVars, msgVars, importVars, remoteLen, workerReady, syncVars, exitCode,
                 globalVars, isPollingStarted, isPaused, pollVars,
                 rollbackVars>>

\* block:new for a job of a fan-out of startSync: the promise resolves,
\* Parallel$res runs, and either the fan-out resolves or it drains on.
FanOutAck(j) ==
  /\ Running
  /\ j \in jobs
  /\ j.st = "written"
  /\ j.origin \in {"gap", "bulk"}
  /\ LET p == [par EXCEPT !.running = @ \ {j.height}]
         q == ParallelDrain(p, PARALLEL_WORKERS)
         done == ParallelDone(p)
     IN /\ par' = IF done THEN [p EXCEPT !.state = "resolved"] ELSE q
        /\ jobs' = (jobs \ {j}) \cup
                     (IF done THEN {}
                      ELSE {Job(h, j.origin) : h \in Dispatched(p, q)})
        /\ dispatchCount' = IF done THEN dispatchCount
                            ELSE CountDispatch(dispatchCount, Dispatched(p, q))
        /\ IF j.origin = "gap"
           THEN /\ lastBlock' = IF done THEN lastBlock
                                ELSE LastDispatched(q, lastBlock)
                /\ syncPc' = IF done THEN "afterGap" ELSE syncPc
                /\ UNCHANGED <<currentHeight, isPollingStarted, pollPc, iter>>
           ELSE /\ currentHeight' = IF done THEN currentHeight
                                    ELSE LastDispatched(q, currentHeight)
                /\ UNCHANGED lastBlock
                /\ IF done
                   THEN /\ syncPc' = "done"
                        /\ IF isPollingStarted
                           THEN UNCHANGED <<isPollingStarted, pollPc, iter>>
                           ELSE EnterPolling
                   ELSE UNCHANGED <<syncPc, isPollingStarted, pollPc, iter>>
  /\ UNCHANGED <<envVars, queryVars, schemaVars, msgVars, importVars, remoteLen, store, workerReady, hashList, firstRun,
                 exitCode, topHash, gatewayHeight, topHeight, isPaused,
                 nodeInfo, previousBlock, rollbackVars, forkWritten>>

\* What Parallel$rej leads to, given the fan-out and the jobs still running
\* beside the rejected one: Parallel$cancel calls the cancel function of each,
\* then the rejection branch of fork runs.  The gap repair's cancel function
\* exits with 1 and its rejection branch only logs; the bulk fan-out's cancel
\* function only logs and its rejection branch exits with 1.
RejectionExits(kind, others) ==
  IF kind = "gap" THEN others # {} ELSE TRUE

\* The importBlock promise of a fan-out job rejects.
FanOutReject(j) ==
  /\ Running
  /\ j \in jobs
  /\ j.st = "sent"
  /\ j.origin \in {"gap", "bulk"}
  /\ jobs' = jobs \ {j}
  /\ par' = [par EXCEPT !.running = {}, !.cursor = Len(par.list),
                        !.state = "rejected"]
  /\ IF RejectionExits(j.origin, par.running \ {j.height})
     THEN /\ exitCode' = 1
          /\ UNCHANGED syncPc
     ELSE \* doneSignal is never resolved: await doneSignal stays pending
          /\ syncPc' = "gapRejected"
          /\ UNCHANGED exitCode
  /\ UNCHANGED <<envVars, queryVars, schemaVars, msgVars, importVars, remoteLen, store, workerReady, hashList, firstRun,
                 lastBlock, dispatchCount, globalVars, isPollingStarted,
                 isPaused, pollVars, rollbackVars, forkWritten>>

----------------------------------------------------------------------------
(* The polling loop and the fork recovery.                                 *)

\* Mutant of afterGetNodeInfo: a nil nodeInfo is not tested.
afterGetNodeInfoNoNilTest(nil) == "getMaxHeightBlock"

\* if (!nodeInfo) { await the sleep; return startPolling(); }
afterGetNodeInfo(nil) == IF nil THEN "sleep" ELSE "getMaxHeightBlock"

\* const nodeInfo = await getNodeInfo({}): nil, or the tip of the chain.
PollGetNodeInfo ==
  /\ Running
  /\ pollPc = "getNodeInfo"
  /\ \E nil \in BOOLEAN :
       /\ pollPc' = afterGetNodeInfo(nil)
       /\ IF nil
          THEN /\ iter' = [NoIter EXCEPT !.branch = "nil"]
               /\ UNCHANGED nodeInfo
          ELSE /\ nodeInfo' = remoteLen - 1
               /\ iter' = NoIter
  /\ UNCHANGED <<envVars, queryVars, schemaVars, msgVars, importVars, remoteLen, store, workerReady, jobs, syncVars,
                 exitCode, globalVars, isPollingStarted, isPaused,
                 previousBlock, rollbackVars, forkWritten>>

\* The setTimeout of POLLTIME_DELAY_SECONDS fires: return startPolling().
PollWake ==
  /\ Running
  /\ pollPc = "sleep"
  /\ pollPc' = "getNodeInfo"
  /\ iter' = NoIter
  /\ UNCHANGED <<envVars, queryVars, schemaVars, msgVars, importVars, remoteLen, store, workerReady, jobs, syncVars,
                 exitCode, globalVars, isPollingStarted, isPaused, nodeInfo,
                 previousBlock, rollbackVars, forkWritten>>

\* Mutant of PollBranch: the fork check is left out.
PollBranchNoForkCheck(current, top, len) ==
  IF current = top THEN "same"
  ELSE IF ~RemoteKnows(fetchBlockByHash(current).previous_block, len)
  THEN "rejected"
  ELSE "import"

\* The branch of a poll iteration with a non-nil nodeInfo: nodeInfo.current
\* against topHash, then the parent of the remote tip against topHash.
PollBranch(current, top, len) ==
  IF current = top THEN "same"
  ELSE IF ~RemoteKnows(fetchBlockByHash(current).previous_block, len)
  THEN "rejected"
  ELSE IF fetchBlockByHash(fetchBlockByHash(current).previous_block).indep_hash
            # top
  THEN "fork"
  ELSE "import"

\* [topHash, gatewayHeight] = await getMaxHeightBlock() and the branch on it:
\* sleep, importBlock(nodeInfo.height), or resolveFork(currentRemoteBlock) up
\* to its first await (isPaused = true).  The blocks of the remote chain do
\* not change, so the two fetchBlockByHash are evaluated here.
PollGetMaxHeightBlock ==
  /\ Running
  /\ pollPc = "getMaxHeightBlock"
  /\ LET top == getMaxHeightBlock(store)
         current == <<nodeInfo, "r">>
         currentRemoteBlock == fetchBlockByHash(current)
         branch == PollBranch(current, top[1], remoteLen)
     IN /\ topHash' = top[1]
        /\ gatewayHeight' = top[2]
        /\ CASE branch = "same" ->
                  /\ pollPc' = "sleep"
                  /\ iter' = [NoIter EXCEPT !.branch = "same"]
                  /\ UNCHANGED <<jobs, isPaused, previousBlock>>
             [] branch = "rejected" ->
                  \* fetchBlockByHash of the parent of genesis fails
                  /\ pollPc' = "rejected"
                  /\ iter' = [NoIter EXCEPT !.branch = "rejected"]
                  /\ UNCHANGED <<jobs, isPaused, previousBlock>>
             [] branch = "fork" ->
                  /\ pollPc' = "resolveFork"
                  /\ isPaused' = TRUE
                  /\ previousBlock' = currentRemoteBlock.indep_hash
                  /\ iter' = [NoIter EXCEPT !.branch = "fork",
                                            !.resolveFork = TRUE]
                  /\ UNCHANGED jobs
             [] branch = "import" ->
                  /\ pollPc' = "awaitImport"
                  /\ jobs' = jobs \cup {Job(nodeInfo, "poll")}
                  /\ iter' = [NoIter EXCEPT !.branch = "import",
                                            !.imports = {nodeInfo}]
                  /\ UNCHANGED <<isPaused, previousBlock>>
  /\ UNCHANGED <<envVars, queryVars, schemaVars, msgVars, importVars, remoteLen, store, workerReady, syncVars, exitCode,
                 topHeight, currentHeight, isPollingStarted, nodeInfo,
                 rollbackVars, forkWritten>>

\* await workerPool.single.importBlock(nodeInfo.height) resolves.
PollImportAck(j) ==
  /\ Running
  /\ j \in jobs
  /\ j.st = "written"
  /\ j.origin = "poll"
  /\ pollPc = "awaitImport"
  /\ jobs' = jobs \ {j}
  /\ pollPc' = "sleep"
  /\ UNCHANGED <<envVars, queryVars, schemaVars, msgVars, importVars, remoteLen, store, workerReady, syncVars, exitCode,
                 globalVars, isPollingStarted, isPaused, nodeInfo,
                 previousBlock, iter, rollbackVars, forkWritten>>

\* await workerPool.single.importBlock(nodeInfo.height) rejects: so does
\* startPolling, and no further iteration runs.
PollImportReject(j) ==
  /\ Running
  /\ j \in jobs
  /\ j.st = "sent"
  /\ j.origin = "poll"
  /\ pollPc = "awaitImport"
  /\ jobs' = jobs \ {j}
  /\ pollPc' = "rejected"
  /\ UNCHANGED <<envVars, queryVars, schemaVars, msgVars, importVars, remoteLen, store, workerReady, syncVars, exitCode,
                 globalVars, isPollingStarted, isPaused, nodeInfo,
                 previousBlock, iter, rollbackVars, forkWritten>>

\* An import that resolveFork dispatched settles: nobody awaits its promise.
ForkImportSettle(j) ==
  /\ Running
  /\ j \in jobs
  /\ j.origin = "fork"
  /\ jobs' = jobs \ {j}
  /\ UNCHANGED <<envVars, queryVars, schemaVars, msgVars, importVars, remoteLen, store, workerReady, syncVars, exitCode,
                 globalVars, isPollingStarted, isPaused, pollVars,
                 rollbackVars, forkWritten>>

\* Mutant of blockQueryResult: the ancestor is looked up by height, not hash.
blockQueryResultByHeight(s, hash) == {row \in s.block : row.height = hash[1]}

\* SELECT height FROM block WHERE indep_hash=? and blockQueryResult.rowLength > 0
blockQueryResult(s, hash) == {row \in s.block : row.indep_hash = hash}

\* resolveFork(previousBlock) from fetchBlockByHash(previous_block) and the
\* SELECT on the block table to either the eachRow call and the return to
\* startPolling (which starts its next iteration), or the importBlock of the
\* parent and the recursive call up to its first await.
ResolveFork ==
  /\ Running
  /\ pollPc = "resolveFork"
  /\ LET pprevHash == fetchBlockByHash(previousBlock).previous_block
         pprevBlock == fetchBlockByHash(pprevHash)
         rows == blockQueryResult(store, pprevBlock.indep_hash)
     IN IF ~RemoteKnows(pprevHash, remoteLen)
        THEN \* fetchBlockByHash of the parent of genesis fails
             /\ pollPc' = "rejected"
             /\ UNCHANGED <<jobs, isPaused, previousBlock, iter, rollbackScans>>
        ELSE IF rows # {}
        THEN /\ rollbackScans' = rollbackScans \cup
                                   {(CHOOSE row \in rows : TRUE).height}
             /\ pollPc' = "getNodeInfo"
             /\ iter' = NoIter
             /\ UNCHANGED <<jobs, isPaused, previousBlock>>
        ELSE /\ jobs' = jobs \cup {Job(pprevBlock.height, "fork")}
             /\ iter' = [iter EXCEPT !.imports = @ \cup {pprevBlock.height}]
             /\ isPaused' = TRUE
             /\ previousBlock' = pprevBlock.indep_hash
             /\ UNCHANGED <<pollPc, rollbackScans>>
  /\ UNCHANGED <<envVars, queryVars, schemaVars, msgVars, importVars, remoteLen, store, workerReady, syncVars, exitCode,
                 globalVars, isPollingStarted, nodeInfo, pendingDeletes,
                 forkWritten>>

\* The eachRow of resolveFork delivers its page: the row callback issues a
\* DELETE for every row above the ancestor, then the end callback runs.
RollbackRows(a) ==
  /\ Running
  /\ a \in rollbackScans
  /\ rollbackScans' = rollbackScans \ {a}
  /\ pendingDeletes' = pendingDeletes \cup
       {row.indep_hash : row \in {r \in store.block : r.height > a}}
  /\ isPaused' = FALSE
  /\ UNCHANGED <<envVars, queryVars, schemaVars, msgVars, importVars, remoteLen, store, workerReady, jobs, syncVars,
                 exitCode, globalVars, isPollingStarted, pollVars, forkWritten>>

\* DELETE FROM block WHERE indep_hash = '...' executes.
DeleteExecute(hash) ==
  /\ Running
  /\ hash \in pendingDeletes
  /\ pendingDeletes' = pendingDeletes \ {hash}
  /\ store' = [store EXCEPT !.block = {r \in @ : r.indep_hash # hash}]
  /\ UNCHANGED <<envVars, queryVars, schemaVars, msgVars, importVars, remoteLen, workerReady, jobs, syncVars, exitCode,
                 globalVars, isPollingStarted, isPaused, pollVars,
                 rollbackScans, forkWritten>>

----------------------------------------------------------------------------
Hashes == {<<h, v>> : h \in Heights, v \in Variants}

\* startSync, its fan-outs and the workers' imports, up to the entry into
\* the polling loop.
Next ==
  \/ \E w \in 1 .. MaxWorkers : WorkerReady(w)
  \/ SyncBegin
  \/ SyncAfterGap
  \/ \E j \in jobs : JobWrite(j)
  \/ \E j \in jobs : FanOutAck(j)
  \/ \E j \in jobs : FanOutReject(j)

Spec == Init /\ [][Next]_vars

\* The polling loop has been entered.  Since the epoch that filled the store
\* the remote chain may have grown or been reorganized: at each height up to
\* its tip the store holds the block the remote node serves now or an
\* orphaned block.
InitPoll ==
  /\ PARALLEL_WORKERS = 1
  /\ developmentSyncLength = Undefined
  /\ remoteLen \in 1 .. MaxHeight
  /\ store \in SyncedStores
  /\ workerReady = {1}
  /\ jobs = {}
  /\ syncPc = "done"
  /\ hashList = <<>>
  /\ firstRun = FALSE
  /\ lastBlock = -1
  /\ par = NoParallel
  /\ exitCode = -1
  /\ topHash = NoHash
  /\ gatewayHeight = 0
  /\ topHeight = 0
  /\ currentHeight = 0
  /\ isPollingStarted = TRUE
  /\ isPaused = FALSE
  /\ pollPc = "getNodeInfo"
  /\ nodeInfo = -1
  /\ previousBlock = NoHash
  /\ rollbackScans = {}
  /\ pendingDeletes = {}
  /\ dispatchCount = [h \in Heights |-> 0]
  /\ iter = NoIter
  /\ forkWritten = {}
  /\ txInFlight = <<>>
  /\ lastImport = NoImport
  /\ lastMessage = NoMessage
  /\ blockQuery = NoQuery
  /\ SchemaNotStarted

\* startPolling, resolveFork, the rollback and the workers' imports.
NextPoll ==
  \/ PollGetNodeInfo
  \/ PollWake
  \/ PollGetMaxHeightBlock
  \/ \E j \in jobs : JobWrite(j)
  \/ \E j \in jobs : PollImportAck(j)
  \/ \E j \in jobs : PollImportReject(j)
  \/ \E j \in jobs : ForkImportSettle(j)
  \/ ResolveFork
  \/ \E a \in Heights : RollbackRows(a)
  \/ \E hash \in Hashes : DeleteExecute(hash)

PollSpec == InitPoll /\ [][NextPoll]_vars

----------------------------------------------------------------------------
(* The import queries on their own: a worker calls makeTxImportQuery and   *)
(* makeBlockImportQuery for blocks of the remote chain, in any order and   *)
(* any number of times.                                                    *)

InitImport ==
  /\ PARALLEL_WORKERS = 1
  /\ developmentSyncLength = Undefined
  /\ remoteLen = MaxHeight
  /\ store = EmptyStore
  /\ workerReady = {1}
  /\ jobs = {}
  /\ syncPc = "bulk"
  /\ hashList = getHashList(MaxHeight)
  /\ firstRun = TRUE
  /\ lastBlock = -1
  /\ par = NoParallel
  /\ exitCode = -1
  /\ topHash = NoHash
  /\ gatewayHeight = 0
  /\ topHeight = MaxHeight
  /\ currentHeight = 0
  /\ isPollingStarted = FALSE
  /\ isPaused = FALSE
  /\ pollPc = "idle"
  /\ nodeInfo = -1
  /\ previousBlock = NoHash
  /\ rollbackScans = {}
  /\ pendingDeletes = {}
  /\ dispatchCount = [h \in Heights |-> 0]
  /\ iter = NoIter
  /\ forkWritten = {}
  /\ txInFlight = <<>>
  /\ lastImport = NoImport
  /\ lastMessage = NoMessage
  /\ blockQuery = NoQuery
  /\ SchemaNotStarted

\* makeTxImportQuery(tx, blockData)() for a transaction of the block.
ImportTx(blockData, id) ==
  /\ id \in blockData.txs
  /\ store' = makeTxImportQuery(store, UpstreamTx(id), blockData)
  /\ lastImport' = [kind |-> "tx", block |-> blockData.indep_hash, tx |-> id]
  /\ UNCHANGED <<envVars, queryVars, schemaVars, msgVars, remoteLen, workerReady, jobs, syncVars,
                 exitCode, globalVars, isPollingStarted, isPaused, pollVars,
                 rollbackVars, forkWritten>>

\* makeBlockImportQuery(input)(); TimeUuid.fromDate returns blockTimeUuid.
ImportBlock(input, blockTimeUuid) ==
  /\ store' = makeBlockImportQuery(store, input, blockTimeUuid)
  /\ lastImport' = [kind |-> "block", block |-> input.indep_hash, tx |-> -1]
  /\ UNCHANGED <<envVars, queryVars, schemaVars, msgVars, remoteLen, workerReady, jobs, syncVars,
                 exitCode, globalVars, isPollingStarted, isPaused, pollVars,
                 rollbackVars, forkWritten>>

NextImport ==
  \/ \E h \in Heights : \E id \in Heights :
       ImportTx(UpstreamBlock(h, "r"), id)
  \/ \E h \in Heights : \E u \in TimeUuids :
       ImportBlock(UpstreamBlock(h, "r"), u)

ImportSpec == InitImport /\ [][NextImport]_vars

----------------------------------------------------------------------------
(* The stats:tx:flight messages of the workers and getTxsInFlight.         *)

\* The greatest payload of a stats:tx:flight message in the model.
MaxInFlight == 8

\* The payloads of stats:tx:flight: a number, or a string of digits or of
\* other characters.
Payloads ==
  [type : {"number", "string"}, n : 0 .. MaxInFlight, digits : {TRUE}]
  \cup {[type |-> "string", n |-> 0, digits |-> FALSE]}

\* typeof payload === "number" ? payload : Number.parseInt(payload)
parsePayload(payload) ==
  IF payload.type = "number" THEN Number(payload.n)
  ELSE IF payload.digits THEN Number(payload.n)
  ELSE NaN

\* The value reduce throws on an empty array without an initial value.
TypeError == [kind |-> "TypeError", n |-> 0]

numberOr0(v) == IF v.kind = "NaN" THEN 0 ELSE v.n

\* Array.prototype.reduce without an initial value from index i on, the
\* accumulator being acc; keys is the ascending list of the map's keys.
RECURSIVE reduceSum(_, _, _, _)
reduceSum(map, keys, i, acc) ==
  IF i > Len(keys) THEN acc
  ELSE reduceSum(map, keys, i + 1,
                 Number(numberOr0(acc) + numberOr0(map[keys[i]])))

\* Object.values(txInFlight).reduce((a, b) => numberOr0(a) + numberOr0(b)):
\* no callback runs on a single value, and an empty array throws.
getTxsInFlight(map) ==
  LET keys == ascending(DOMAIN map)
  IN IF keys = <<>> THEN TypeError
     ELSE reduceSum(map, keys, 2, map[keys[1]])

InitMsg ==
  /\ PARALLEL_WORKERS \in 1 .. MaxWorkers
  /\ developmentSyncLength = Undefined
  /\ remoteLen = 1
  /\ store = EmptyStore
  /\ workerReady = {}
  /\ jobs = {}
  /\ syncPc = "awaitReady"
  /\ hashList = <<>>
  /\ firstRun = FALSE
  /\ lastBlock = -1
  /\ par = NoParallel
  /\ exitCode = -1
  /\ topHash = NoHash
  /\ gatewayHeight = 0
  /\ topHeight = 0
  /\ currentHeight = 0
  /\ isPollingStarted = FALSE
  /\ isPaused = FALSE
  /\ pollPc = "idle"
  /\ nodeInfo = -1
  /\ previousBlock = NoHash
  /\ rollbackScans = {}
  /\ pendingDeletes = {}
  /\ dispatchCount = [h \in Heights |-> 0]
  /\ iter = NoIter
  /\ forkWritten = {}
  /\ txInFlight = <<>>
  /\ lastImport = NoImport
  /\ lastMessage = NoMessage
  /\ blockQuery = NoQuery
  /\ SchemaNotStarted

\* The message types a worker may send; the last one is none the handler
\* knows.
MessageTypes ==
  {"worker:ready", "log:info", "block:new", "stats:tx:flight", "worker:bogus"}

\* Mutant of messageCase: a message of unknown type falls into the
\* stats:tx:flight case.
messageCaseNoDefault(type) ==
  IF type \in {"worker:ready", "log:info", "block:new", "stats:tx:flight"}
  THEN type ELSE "stats:tx:flight"

\* switch (message.type): the case that handles the message.
messageCase(type) ==
  IF type \in {"worker:ready", "log:info", "block:new", "stats:tx:flight"}
  THEN type ELSE "default"

\* The workers with a function in messagePromiseReceivers: the object is
\* created empty and nothing assigns to it.
messagePromiseReceivers == {}

MsgUnchanged ==
  UNCHANGED <<envVars, queryVars, schemaVars, importVars, remoteLen, store,
              workerReady, jobs, syncVars, exitCode, globalVars,
              isPollingStarted, isPaused, pollVars, rollbackVars, forkWritten>>

\* workerPool.onMessage, case "log:info"
LogInfo(message, workerId) ==
  /\ Running
  /\ workerId \in 1 .. PARALLEL_WORKERS
  /\ messageCase(message.type) = "log:info"
  /\ lastMessage' = [type |-> message.type, workerId |-> workerId]
  /\ UNCHANGED txInFlight
  /\ MsgUnchanged

\* workerPool.onMessage, case "block:new"
BlockNew(message, workerId) ==
  /\ Running
  /\ workerId \in 1 .. PARALLEL_WORKERS
  /\ messageCase(message.type) = "block:new"
  /\ IF workerId \in messagePromiseReceivers
     THEN txInFlight' = [w \in DOMAIN txInFlight \ {workerId} |-> txInFlight[w]]
     ELSE UNCHANGED txInFlight
  /\ lastMessage' = [type |-> message.type, workerId |-> workerId]
  /\ MsgUnchanged

\* workerPool.onMessage, case "stats:tx:flight"
StatsTxFlight(message, workerId) ==
  /\ Running
  /\ workerId \in 1 .. PARALLEL_WORKERS
  /\ messageCase(message.type) = "stats:tx:flight"
  /\ txInFlight' = [w \in DOMAIN txInFlight \cup {workerId} |->
                      IF w = workerId THEN parsePayload(message.payload)
                      ELSE txInFlight[w]]
  /\ lastMessage' = [type |-> message.type, workerId |-> workerId]
  /\ MsgUnchanged

\* workerPool.onMessage, default: console.error.
UnknownMessage(message, workerId) ==
  /\ Running
  /\ workerId \in 1 .. PARALLEL_WORKERS
  /\ messageCase(message.type) = "default"
  /\ lastMessage' = [type |-> message.type, workerId |-> workerId]
  /\ UNCHANGED txInFlight
  /\ MsgUnchanged

\* The messages of the model: stats:tx:flight with every payload, the other
\* types with one payload each.
Messages ==
  [type : {"stats:tx:flight"}, payload : Payloads]
  \cup [type : MessageTypes \ {"worker:ready", "stats:tx:flight"},
        payload : {[type |-> "number", n |-> 1, digits |-> TRUE]}]

NextMsg ==
  \/ \E w \in 1 .. MaxWorkers : WorkerReady(w)
  \/ \E message \in Messages : \E workerId \in 1 .. MaxWorkers :
       LogInfo(message, workerId)
  \/ \E message \in Messages : \E workerId \in 1 .. MaxWorkers :
       BlockNew(message, workerId)
  \/ \E message \in Messages : \E workerId \in 1 .. MaxWorkers :
       StatsTxFlight(message, workerId)
  \/ \E message \in Messages : \E workerId \in 1 .. MaxWorkers :
       UnknownMessage(message, workerId)

MsgSpec == InitMsg /\ [][NextMsg]_vars

----------------------------------------------------------------------------
(* The block query of the GraphQL layer.                                   *)

\* The greatest client offset of a block query in the model.
MaxOffset == 2

\* The state of the sync process before it has started: the GraphQL layer
\* and the Schema Initializer do not touch it.
SyncNotStarted ==
  /\ PARALLEL_WORKERS = 1
  /\ developmentSyncLength = Undefined
  /\ remoteLen = 1
  /\ store = EmptyStore
  /\ workerReady = {}
  /\ jobs = {}
  /\ syncPc = "awaitReady"
  /\ hashList = <<>>
  /\ firstRun = FALSE
  /\ lastBlock = -1
  /\ par = NoParallel
  /\ exitCode = -1
  /\ topHash = NoHash
  /\ gatewayHeight = 0
  /\ topHeight = 0
  /\ currentHeight = 0
  /\ isPollingStarted = FALSE
  /\ isPaused = FALSE
  /\ pollPc = "idle"
  /\ nodeInfo = -1
  /\ previousBlock = NoHash
  /\ rollbackScans = {}
  /\ pendingDeletes = {}
  /\ dispatchCount = [h \in Heights |-> 0]
  /\ iter = NoIter
  /\ forkWritten = {}
  /\ txInFlight = <<>>
  /\ lastImport = NoImport
  /\ lastMessage = NoMessage

SortOrders == {"HEIGHT_ASC", "HEIGHT_DESC", "undefined"}

\* BlockQueryParams: id is NoHash and before is 0 when they are not given.
BlockQueryParams ==
  [id : {NoHash, <<0, "r">>},
   ids : {{}, {<<1, "r">>}},
   before : {0, 1},
   offset : 0 .. MaxOffset,
   fetchSize : 1 .. 2,
   minHeight : Heights,
   maxHeight : Heights,
   sortOrder : SortOrders]

\* params.sortOrder === 'HEIGHT_DESC' ? maxHeight.sub(offset) : maxHeight
blockQueryUpperBound(params) ==
  IF params.sortOrder = "HEIGHT_DESC"
  THEN params.maxHeight - params.offset
  ELSE params.maxHeight

\* generateBlockQuery(params): the table, the where clauses and the limit of
\* the SELECT it builds.
generateBlockQuery(params) ==
  [table |-> IF params.sortOrder = "HEIGHT_ASC"
             THEN "block_gql_asc" ELSE "block_gql_desc",
   indep_hash |-> IF params.id # NoHash THEN {params.id}
                  ELSE IF params.ids # {} THEN params.ids
                  ELSE {NoHash},
   timestampBefore |-> params.before,
   heightFrom |-> IF params.sortOrder = "HEIGHT_ASC"
                  THEN params.minHeight + params.offset
                  ELSE params.minHeight,
   heightTo |-> blockQueryUpperBound(params),
   limit |-> params.fetchSize]

InitQuery ==
  /\ SyncNotStarted
  /\ blockQuery = NoQuery
  /\ SchemaNotStarted

GenerateBlockQuery(params) ==
  /\ blockQuery' = [called |-> TRUE, params |-> params,
                    cql |-> generateBlockQuery(params)]
  /\ UNCHANGED <<envVars, schemaVars, msgVars, importVars, remoteLen, store,
                 workerReady, jobs, syncVars, exitCode, globalVars,
                 isPollingStarted, isPaused, pollVars, rollbackVars,
                 forkWritten>>

NextQuery == \E params \in BlockQueryParams : GenerateBlockQuery(params)

QuerySpec == InitQuery /\ [][NextQuery]_vars

----------------------------------------------------------------------------
(* The Schema Initializer.                                                 *)

\* The statements of the Schema Initializer, in list order.
queries ==
  <<[kind |-> "keyspace", name |-> "gateway"],
    [kind |-> "use", name |-> "gateway"],
    [kind |-> "table", name |-> "poa"],
    [kind |-> "table", name |-> "sync_status"],
    [kind |-> "table", name |-> "block_status"],
    [kind |-> "table", name |-> "block_hash"],
    [kind |-> "table", name |-> "block"],
    [kind |-> "table", name |-> "tx_tag"],
    [kind |-> "table", name |-> "transaction"],
    [kind |-> "table", name |-> "manifest"]>>

\* The tables the insert statements of the import queries write to.
ImportTables ==
  {"poa", "block", "transaction", "tx_offset", "tx_tag",
   "block_height_by_block_hash", "block_by_tx_id", "block_gql_asc",
   "block_gql_desc"}

\* What exists before the initializer runs: nothing (a fresh cluster), or the
\* keyspace with some tables of an earlier run.
InitialSchemas ==
  {{}} \cup {{"gateway"} \cup tables : tables \in SUBSET {"poa", "block", "transaction"}}

\* CREATE ... IF NOT EXISTS adds the keyspace or table; USE adds nothing.
executeQuery(tables, query) ==
  IF query.kind = "use" THEN tables ELSE tables \cup {query.name}

\* Mutant of ChainReady: every statement is started without waiting for the
\* one before it.
ChainNeverWaits(inFlight) == TRUE

\* p = p.then(() => client.execute(query)): the callback runs when the
\* promise of the statement before it has resolved.
ChainReady(inFlight) == inFlight = {}

InitSchema ==
  /\ SyncNotStarted
  /\ blockQuery = NoQuery
  /\ schemaPc = "connect"
  /\ schemaStarted = <<>>
  /\ schemaInFlight = {}
  /\ schemaTables \in InitialSchemas

SchemaUnchanged ==
  UNCHANGED <<envVars, queryVars, msgVars, importVars, remoteLen, store,
              workerReady, jobs, syncVars, globalVars, isPollingStarted,
              isPaused, pollVars, rollbackVars, forkWritten>>

\* client.connect() resolves: the first then-callback builds the chain.
SchemaConnected ==
  /\ Running
  /\ schemaPc = "connect"
  /\ schemaPc' = "chain"
  /\ UNCHANGED <<exitCode, schemaStarted, schemaInFlight, schemaTables>>
  /\ SchemaUnchanged

\* client.connect() rejects: catch logs the error and exits.
SchemaConnectFails ==
  /\ Running
  /\ schemaPc = "connect"
  /\ schemaPc' = "failed"
  /\ exitCode' = 1
  /\ UNCHANGED <<schemaStarted, schemaInFlight, schemaTables>>
  /\ SchemaUnchanged

\* The next link of the chain calls client.execute(query).
SchemaExecute ==
  /\ Running
  /\ schemaPc = "chain"
  /\ Len(schemaStarted) < Len(queries)
  /\ ChainReady(schemaInFlight)
  /\ schemaStarted' = Append(schemaStarted, Len(schemaStarted) + 1)
  /\ schemaInFlight' = schemaInFlight \cup {Len(schemaStarted) + 1}
  /\ UNCHANGED <<exitCode, schemaPc, schemaTables>>
  /\ SchemaUnchanged

\* A statement resolves.
SchemaStatementDone(i) ==
  /\ Running
  /\ i \in schemaInFlight
  /\ schemaInFlight' = schemaInFlight \ {i}
  /\ schemaTables' = executeQuery(schemaTables, queries[i])
  /\ UNCHANGED <<exitCode, schemaPc, schemaStarted>>
  /\ SchemaUnchanged

\* A statement rejects: the remaining links are skipped, catch exits.
SchemaStatementFails(i) ==
  /\ Running
  /\ i \in schemaInFlight
  /\ schemaInFlight' = schemaInFlight \ {i}
  /\ schemaPc' = "failed"
  /\ exitCode' = 1
  /\ UNCHANGED <<schemaStarted, schemaTables>>
  /\ SchemaUnchanged

\* The chain has resolved: '[cassandra] init done', process.exit(0).
SchemaDone ==
  /\ Running
  /\ schemaPc = "chain"
  /\ Len(schemaStarted) = Len(queries)
  /\ schemaInFlight = {}
  /\ schemaPc' = "done"
  /\ exitCode' = 0
  /\ UNCHANGED <<schemaStarted, schemaInFlight, schemaTables>>
  /\ SchemaUnchanged

NextSchema ==
  \/ SchemaConnected
  \/ SchemaConnectFails
  \/ SchemaExecute
  \/ \E i \in 1 .. Len(queries) : SchemaStatementDone(i)
  \/ \E i \in 1 .. Len(queries) : SchemaStatementFails(i)
  \/ SchemaDone

SchemaSpec == InitSchema /\ [][NextSchema]_vars

----------------------------------------------------------------------------
(* The claims.                                                             *)

ForkJobs == {j \in jobs : j.origin = "fork"}
FanOutJobs(kind) == {j \in jobs : j.origin = kind}

\* C1: while isPaused is true the polling loop dispatches no importBlock
\* for a new tip and starts no further poll iteration: startPolling stands
\* inside resolveFork (or has ended with it).
C1_PauseGatesPolling ==
  isPaused => pollPc \in {"resolveFork", "rejected"}

\* C2: a replacement block that an import of resolveFork wrote is never
\* removed by the rollback deletion, and once the fork recovery and its
\* imports have finished no orphaned block is left at the height of a
\* replacement block.
RecoveryFinished ==
  /\ pollPc \notin {"resolveFork", "rejected"}
  /\ ForkJobs = {}
  /\ rollbackScans = {}
  /\ pendingDeletes = {}

C2_DeletionBeforeReplacement ==
  /\ forkWritten \subseteq store.block
  /\ RecoveryFinished =>
       \A row \in forkWritten :
         ~ \E o \in store.block :
             o.height = row.height /\ o.indep_hash # row.indep_hash

\* C3: once startSync has finished gap repair and bulk fan-out, every row of
\* the block table carries the hash of the hash list at its height.
C3_CanonicalAlignment ==
  syncPc = "done" =>
    \A b \in store.block :
      b.height < Len(hashList) /\ hashList[b.height + 1] = b.indep_hash

\* C4: for every transaction row whose containing block is persisted,
\* block_by_tx_id of the transaction is that block.
C4_ReferentialClosure ==
  \A t \in store.transaction :
    [height |-> t.block_height, indep_hash |-> t.block_hash] \in store.block
      => \E m \in store.block_by_tx_id :
           /\ m.tx_id = t.id
           /\ m.block_height = t.block_height
           /\ m.block_hash = t.block_hash

\* C5: every rejected importBlock job of a fan-out of startSync ends the
\* process with exit code 1.
C5_RejectedJobExits ==
  par.state = "rejected" => exitCode = 1

\* C6: at most PARALLEL_WORKERS jobs of startSync are dispatched and not yet
\* acknowledged, and no job of the gap repair is outstanding once the bulk
\* fan-out exists.
C6_BoundedConcurrency ==
  /\ Cardinality(FanOutJobs("gap") \cup FanOutJobs("bulk")) <= PARALLEL_WORKERS
  /\ Cardinality(par.running) <= PARALLEL_WORKERS
  /\ (par.kind = "bulk" \/ FanOutJobs("bulk") # {}) => FanOutJobs("gap") = {}

\* C6 witness: after a gap repair, the bulk fan-out runs with more than one
\* worker and all of them busy.
C6_Witness ==
  /\ par.kind = "bulk"
  /\ PARALLEL_WORKERS >= 2
  /\ Cardinality(FanOutJobs("bulk")) = PARALLEL_WORKERS
  /\ \E i \in (par.cursor + 1) .. Len(par.list) :
       dispatchCount[par.list[i]] > 0

\* The block table holds exactly one row per height of the remote chain,
\* with the hash of the hash list.
ExactlySynced ==
  store.block =
    {[height |-> i - 1, indep_hash |-> getHashList(remoteLen)[i]] :
       i \in 1 .. remoteLen}

\* C7: on a store whose block rows are exactly the hash list, every step of
\* startSync dispatches no importBlock, the handshakes lead past the gap
\* repair, and the next step enters the polling loop.
C7_SyncedStoreGoesToPolling ==
  [][(ExactlySynced /\ syncPc \in {"awaitReady", "afterGap"}) =>
       /\ jobs' = {}
       /\ dispatchCount' = dispatchCount
       /\ syncPc' # syncPc =>
            \/ syncPc = "awaitReady" /\ syncPc' = "afterGap"
            \/ /\ syncPc = "afterGap"
               /\ syncPc' = "done"
               /\ pollPc' = "getNodeInfo"
               /\ isPollingStarted']_vars

\* C8: on a first run with DEVELOPMENT_SYNC_LENGTH unset, importBlock is
\* dispatched at most once per height and only for heights of the hash list,
\* and when polling starts it was dispatched exactly once for each of them and
\* exactly len(hashList) blocks are imported.
C8_FirstRunImportsAll ==
  (firstRun /\ ~Truthy(developmentSyncLength)) =>
    /\ \A h \in Heights :
         dispatchCount[h] <= 1 /\ (dispatchCount[h] = 1 => h < Len(hashList))
    /\ syncPc = "done" =>
         /\ \A h \in Heights : h < Len(hashList) => dispatchCount[h] = 1
         /\ Cardinality(store.block) = Len(hashList)
         /\ jobs = {}

\* C8 witness: a first run over the longest hash list has reached polling.
C8_Witness ==
  /\ firstRun
  /\ syncPc = "done"
  /\ pollPc = "getNodeInfo"
  /\ Len(hashList) = MaxHeight
  /\ Cardinality(store.block) = MaxHeight

PollJobs == {j \in jobs : j.origin = "poll"}

FairPollSpec == PollSpec /\ WF_vars(ResolveFork)

C11_ReadyBeforeDispatch ==
  workerReady # 1 .. PARALLEL_WORKERS =>
    /\ syncPc = "awaitReady"
    /\ hashList = <<>>
    /\ topHeight = 0
    /\ jobs = {}
    /\ \A h \in Heights : dispatchCount[h] = 0

\* C11 witness: with two or more workers, all of them ready, jobs are
\* dispatched.
C11_Witness ==
  /\ PARALLEL_WORKERS >= 2
  /\ workerReady = 1 .. PARALLEL_WORKERS
  /\ hashList # <<>>
  /\ jobs # {}

\* C12: once startSync has entered the polling loop no fan-out job is
\* outstanding, the fan-out has resolved, and every block of the bulk
\* fan-out has been imported.
C12_PollingAfterBulk ==
  (isPollingStarted \/ pollPc # "idle") =>
    /\ FanOutJobs("bulk") = {}
    /\ FanOutJobs("gap") = {}
    /\ par.state = "resolved"
    /\ par.running = {}
    /\ par.kind = "bulk" =>
         \A i \in 1 .. Len(par.list) :
           BlockRow(UpstreamBlock(par.list[i], "r")) \in store.block

\* C12 witness: polling was entered after a bulk fan-out of a resumed run
\* with two or more jobs on two or more workers.
C12_Witness ==
  /\ pollPc = "getNodeInfo"
  /\ isPollingStarted
  /\ ~firstRun
  /\ par.kind = "bulk"
  /\ Len(par.list) >= 2
  /\ PARALLEL_WORKERS >= 2

\* The heights the bulk fan-out dispatches in a step.
NewBulkHeights ==
  {j.height : j \in {x \in jobs' \ jobs : x.origin = "bulk" /\ x.st = "sent"}}

\* C13: the list of the bulk fan-out is strictly ascending by height; every
\* job it dispatches has a height above every height it dispatched before,
\* and currentHeight never decreases.
C13_AscendingDispatch ==
  /\ [](par.kind = "bulk" =>
          \A i, j \in 1 .. Len(par.list) : i < j => par.list[i] < par.list[j])
  /\ [][/\ \A n \in NewBulkHeights :
             /\ par.kind = "bulk" =>
                  \A i \in 1 .. par.cursor : par.list[i] < n
             /\ n <= currentHeight'
        /\ NewBulkHeights # {} => currentHeight' \in NewBulkHeights
        /\ currentHeight' >= currentHeight]_vars

\* C13 witness: a job of the bulk fan-out is still outstanding while a job
\* dispatched after it, for a greater height, has completed.
C13_Witness ==
  /\ par.kind = "bulk"
  /\ par.state = "pending"
  /\ \E j \in FanOutJobs("bulk") :
       \E i \in 1 .. par.cursor :
         par.list[i] > j.height /\ par.list[i] \notin par.running

\* C14: with DEVELOPMENT_SYNC_LENGTH = k and 0 <= k < len(hashList), the
\* list of the bulk fan-out starts at height k, and no job of the bulk
\* fan-out has a height below k.
C14_FirstDispatchedIsK ==
  \A k \in Heights :
    (developmentSyncLength = Number(k) /\ k < Len(hashList)
       /\ par.kind = "bulk") =>
      /\ par.list # <<>>
      /\ par.list[1] = k
      /\ par.cursor >= 1
      /\ dispatchCount[k] >= 1
      /\ \A j \in FanOutJobs("bulk") : j.height >= k

\* C14 witness: a resumed run with DEVELOPMENT_SYNC_LENGTH = 1 has started
\* its bulk fan-out.
C14_Witness ==
  /\ developmentSyncLength = Number(1)
  /\ ~firstRun
  /\ Len(hashList) >= 2
  /\ par.kind = "bulk"
  /\ FanOutJobs("bulk") # {}

\* C15: when DEVELOPMENT_SYNC_LENGTH parses to NaN the process has exited
\* with code 1, and startSync has neither fetched the hash list nor
\* dispatched an import.
C15_NaNExitsAtLoad ==
  developmentSyncLength = NaN =>
    exitCode = 1 /\ hashList = <<>> /\ jobs = {}

\* C16: calling an import query again on the input of the last call leaves
\* every table as it is.
C16_IdempotentImport ==
  [][(lastImport.kind # "none" /\ lastImport' = lastImport) =>
       store' = store]_vars

\* C17: block_gql_asc and block_gql_desc hold the same (height, indep_hash)
\* pairs.
C17_AscDescSymmetry ==
  {BlockRow(r) : r \in store.block_gql_asc} =
    {BlockRow(r) : r \in store.block_gql_desc}

\* C17 witness: a fork rollback has deleted a block whose block_gql rows
\* stay, and an import dispatched by resolveFork has been written.
C17_Witness ==
  /\ forkWritten # {}
  /\ rollbackScans = {}
  /\ pendingDeletes = {}
  /\ \E r \in store.block_gql_asc : BlockRow(r) \notin store.block

\* C18: after makeTxImportQuery of a transaction with k tags, tx_tag holds
\* exactly the k rows of the transaction with tag_index 0..k-1 and the
\* transaction row has tag_count = k.
C18_TagCompleteness ==
  lastImport.kind = "tx" =>
    LET tx == UpstreamTx(lastImport.tx)
        k == Len(tx.tags)
        tagRows == {r \in store.tx_tag : r.tx_id = tx.id}
    IN /\ {r.tag_index : r \in tagRows} = 0 .. (k - 1)
       /\ Cardinality(tagRows) = k
       /\ \E t \in store.transaction : t.id = tx.id
       /\ \A t \in store.transaction : t.id = tx.id => t.tag_count = Number(k)

\* The heights of the hash list for which the block table has no row with
\* that height and the hash of the hash list.
UnmatchedHeights ==
  {h \in 0 .. (Len(hashList) - 1) :
     ~ \E row \in store.block :
         row.height = h /\ row.indep_hash = hashList[h + 1]}

\* C19: when a resumed run with DEVELOPMENT_SYNC_LENGTH unset has called
\* findMissingBlocks, the list of the bulk fan-out holds exactly the heights
\* without a matching row, ascending, and with no such height polling starts.
C19_FindMissingBlocksResult ==
  [][(syncPc = "afterGap" /\ syncPc' # "afterGap" /\ ~firstRun
        /\ ~Truthy(developmentSyncLength)) =>
       IF UnmatchedHeights = {}
       THEN syncPc' = "done" /\ par' = par
       ELSE /\ par'.kind = "bulk"
            /\ {par'.list[i] : i \in 1 .. Len(par'.list)} = UnmatchedHeights
            /\ \A i, j \in 1 .. Len(par'.list) :
                 i < j => par'.list[i] < par'.list[j]]_vars

\* The sum of the values of the map, NaN counted as 0.
RECURSIVE SumOr0(_, _)
SumOr0(map, ws) ==
  IF ws = {} THEN 0
  ELSE LET w == CHOOSE x \in ws : TRUE
       IN (IF map[w].kind = "NaN" THEN 0 ELSE map[w].n)
          + SumOr0(map, ws \ {w})

\* C20: getTxsInFlight() is the sum of the values of txInFlight with NaN
\* counted as 0, for every content of the map.
C20_NaNSafeSum ==
  getTxsInFlight(txInFlight) = Number(SumOr0(txInFlight, DOMAIN txInFlight))

\* C21: a block query reads block_gql_asc for HEIGHT_ASC and block_gql_desc
\* otherwise; reading the ascending table its height window is
\* [minHeight + offset, maxHeight], reading the descending table it is
\* [minHeight, maxHeight - offset]; the limit is fetchSize.
C21_OffsetWindow ==
  blockQuery.called =>
    LET params == blockQuery.params
        cql == blockQuery.cql
    IN /\ cql.table = IF params.sortOrder = "HEIGHT_ASC"
                      THEN "block_gql_asc" ELSE "block_gql_desc"
       /\ cql.limit = params.fetchSize
       /\ cql.table = "block_gql_asc" =>
            /\ cql.heightFrom = params.minHeight + params.offset
            /\ cql.heightTo = params.maxHeight
       /\ cql.table = "block_gql_desc" =>
            /\ cql.heightFrom = params.minHeight
            /\ cql.heightTo = params.maxHeight - params.offset

\* C22: when the Schema Initializer has exited with code 0, every table the
\* import queries write to exists.
C22_ImportTablesExist ==
  (schemaPc = "done" /\ exitCode = 0) => ImportTables \subseteq schemaTables

\* C26: the Schema Initializer runs its statements one at a time in list
\* order; it exits with 0 only when all of them resolved, and after a failed
\* connection or statement it starts no statement and has exited with 1.
C26_SerialSchemaInit ==
  /\ [](/\ Cardinality(schemaInFlight) <= 1
        /\ schemaStarted = [i \in 1 .. Len(schemaStarted) |-> i]
        /\ schemaInFlight \subseteq {Len(schemaStarted)}
        /\ exitCode = 0 =>
             /\ Len(schemaStarted) = Len(queries)
             /\ schemaInFlight = {}
             /\ \A i \in 1 .. Len(queries) :
                  queries[i].kind # "use" => queries[i].name \in schemaTables
        /\ schemaPc = "failed" => exitCode = 1 /\ schemaInFlight = {}
        /\ exitCode = 1 => schemaPc = "failed")
  /\ [][schemaPc = "failed" => UNCHANGED schemaVars]_vars

C26_Witness ==
  /\ schemaPc = "failed"
  /\ exitCode = 1
  /\ Len(schemaStarted) \in 2 .. (Len(queries) - 1)

\* C23: while a rollback scan of resolveFork is in flight or a DELETE it
\* issued is pending, isPaused is true and startPolling stands inside
\* resolveFork.
C23_PausedUntilDeleted ==
  (rollbackScans # {} \/ pendingDeletes # {}) =>
    isPaused /\ pollPc = "resolveFork"

\* C24: a poll iteration whose getNodeInfo returned nil changes none of
\* topHash, gatewayHeight, isPaused and the store, dispatches no importBlock,
\* does not invoke resolveFork and goes to sleep; the next iteration starts
\* from that sleep.
C24_NilNodeInfoSleeps ==
  /\ [][(pollPc = "getNodeInfo" /\ iter'.branch = "nil") =>
          /\ pollPc' = "sleep"
          /\ UNCHANGED <<topHash, gatewayHeight, isPaused, store, jobs,
                         previousBlock, rollbackScans, pendingDeletes>>
          /\ iter'.imports = {}
          /\ ~iter'.resolveFork]_vars
  /\ [][(pollPc = "sleep" /\ iter.branch = "nil" /\ pollPc' # "sleep") =>
          /\ pollPc' = "getNodeInfo"
          /\ UNCHANGED <<topHash, gatewayHeight, isPaused, store, jobs>>]_vars

C24_Witness ==
  /\ pollPc = "sleep"
  /\ iter.branch = "nil"
  /\ jobs # {}

\* C25: handling a message of a type the handler does not know changes
\* none of txInFlight, the ready handshakes, currentHeight, topHeight and
\* the pending jobs.
C25_UnknownMessageDropped ==
  [][(lastMessage' # lastMessage
        /\ lastMessage'.type \notin
             {"worker:ready", "log:info", "block:new", "stats:tx:flight"}) =>
       UNCHANGED <<txInFlight, workerReady, currentHeight, topHeight, jobs,
                   store, exitCode>>]_vars

C25_Witness ==
  /\ lastMessage.type = "worker:bogus"
  /\ DOMAIN txInFlight # {}
  /\ workerReady # {}

\* C29: when the last message handled is a worker's block:new, txInFlight
\* holds no entry for that worker.
C29_BlockNewClearsInFlight ==
  lastMessage.type = "block:new" =>
    lastMessage.workerId \notin DOMAIN txInFlight

\* The polling loop when every call eventually succeeds: getNodeInfo
\* eventually answers, timers fire, the store answers, workers import and
\* acknowledge, the rollback's scan and DELETEs execute.
GetNodeInfoSucceeds == PollGetNodeInfo /\ pollPc' = "getMaxHeightBlock"

ConvergePollSpec ==
  /\ PollSpec
  /\ SF_vars(GetNodeInfoSucceeds)
  /\ WF_vars(PollWake)
  /\ WF_vars(PollGetMaxHeightBlock)
  /\ WF_vars(\E j \in jobs : JobWrite(j))
  /\ WF_vars(\E j \in jobs : PollImportAck(j))
  /\ WF_vars(\E j \in jobs : ForkImportSettle(j))
  /\ WF_vars(ResolveFork)
  /\ WF_vars(\E a \in Heights : RollbackRows(a))
  /\ WF_vars(\E hash \in Hashes : DeleteExecute(hash))

\* C27: with a fixed remote tip and no call that fails for good, the polling
\* loop eventually reaches and keeps topHash = nodeInfo.current.
C27_PollingConverges ==
  [](pollPc # "rejected") => <>[](topHash = <<remoteLen - 1, "r">>)

\* The (height, indep_hash) pairs of the block table.
BlockPairs == {<<row.height, row.indep_hash>> : row \in store.block}

\* C28: once no rollback scan and no DELETE of resolveFork is outstanding,
\* every row of block_gql_asc, block_gql_desc and block_height_by_block_hash
\* belongs to a row of the block table, and so does the tip that
\* getMaxHeightBlock reads.
C28_RollbackRemovesProjections ==
  (rollbackScans = {} /\ pendingDeletes = {}) =>
    /\ \A row \in store.block_gql_asc \cup store.block_gql_desc :
         <<row.height, row.indep_hash>> \in BlockPairs
    /\ \A row \in store.block_height_by_block_hash :
         <<row.block_height, row.block_hash>> \in BlockPairs
    /\ getMaxHeightBlock(store)[1] # NoHash =>
         <<getMaxHeightBlock(store)[2], getMaxHeightBlock(store)[1]>> \in BlockPairs

====
